---- MODULE Spec2Model ----
(***************************************************************************)
(* Model of train_texture_svm.py: load_xy turns every (crop, face_factor)  *)
(* pair of the crop source into a 48-entry texture descriptor and a 0/1    *)
(* label, checks that all rows have one length, converts both lists to     *)
(* float32 arrays; main splits them into a validation prefix and a         *)
(* training remainder and hands the training part to the classifier.       *)
(*                                                                         *)
(* Numbers.  The descriptor is computed by numpy in float64.  The model    *)
(* keeps these values exact: a value is a triple <<n, d, k>>, d > 0,       *)
(* gcd(n, d) = 1, standing for n/d when k = 1 and for sqrt(n/d) when       *)
(* k = 2 (n/d then not the square of a rational).  The float32 conversion  *)
(* of line 104 is modelled by what it does: round to nearest, ties to      *)
(* even, on a 24 bit significand; a float32 is a pair <<m, e>> standing    *)
(* for m * 2^e with m odd (or <<0, 0>>).                                   *)
(***************************************************************************)
EXTENDS Integers, Naturals, Sequences, FiniteSets, TLC

\* ------------------------------------------------------------------------
\* Module constants (lines 22-29)

CROP_HEIGHT == 32

CROP_WIDTH == 32

NB_CROPS == 7500

NB_VALIDATION == 512

NB_AUGMENTATIONS == 0

\* 0.5 as the exact fraction 1/2
CAT_FRACTION_THRESHOLD == <<1, 2>>

\* the `levels` argument of greycomatrix (line 84)
LEVELS == 256

\* ------------------------------------------------------------------------
\* Exact arithmetic

Abs(x) == IF x < 0 THEN -x ELSE x

Min(a, b) == IF a <= b THEN a ELSE b

RECURSIVE GCD(_, _)
GCD(a, b) == IF b = 0 THEN a ELSE GCD(b, a % b)

RECURSIVE ISqrt(_)
ISqrt(n) ==
    IF n < 2 THEN n
    ELSE LET s == 2 * ISqrt(n \div 4)
         IN  IF (s + 1) * (s + 1) <= n THEN s + 1 ELSE s

\* f[1] + ... + f[n]
RECURSIVE SumTo(_, _)
SumTo(n, f) == IF n = 0 THEN 0 ELSE f[n] + SumTo(n - 1, f)

\* gcd(f[1], ..., f[n])
RECURSIVE GCDTo(_, _)
GCDTo(n, f) == IF n = 0 THEN 0 ELSE GCD(f[n], GCDTo(n - 1, f))

\* <<f[1], ..., f[n]>>, every entry evaluated
RECURSIVE MkSeq(_, _)
MkSeq(n, f) == IF n = 0 THEN <<>> ELSE Append(MkSeq(n - 1, f), f[n])

\* n/d in lowest terms, d > 0
Rat(n, d) ==
    LET g == GCD(Abs(n), Abs(d))
        s == IF d < 0 THEN -1 ELSE 1
    IN  <<s * (n \div g), s * (d \div g), 1>>

\* sqrt(n/d), n >= 0, d > 0
SqrtRat(n, d) ==
    LET q  == Rat(n, d)
        rn == ISqrt(q[1])
        rd == ISqrt(q[2])
    IN  IF rn * rn = q[1] /\ rd * rd = q[2] THEN <<rn, rd, 1>>
        ELSE <<q[1], q[2], 2>>

Zero == Rat(0, 1)

One == Rat(1, 1)

\* ------------------------------------------------------------------------
\* float32 (np.array(..., dtype=np.float32), lines 104-105)

\* m * 2^e with the trailing zero bits of m moved into e
RECURSIVE StripZeros(_, _)
StripZeros(m, e) ==
    IF m = 0 THEN <<0, 0>>
    ELSE IF m % 2 = 0 THEN StripZeros(m \div 2, e + 1)
    ELSE <<m, e>>

\* q: 25 leading bits (24 of the significand, one guard bit) of a value in
\* [2^e, 2^(e+1)); sticky: whether anything non-zero follows them.
RoundNearestEven(sign, q, sticky, e) ==
    LET m  == q \div 2
        up == (q % 2 = 1) /\ (sticky \/ m % 2 = 1)
    IN  StripZeros(sign * (IF up THEN m + 1 ELSE m), e - 23)

\* <<n, d, e>> with n/d * 2^e unchanged and d <= n < 2d
RECURSIVE Normalise2(_, _, _)
Normalise2(n, d, e) ==
    IF n < d THEN Normalise2(2 * n, d, e - 1)
    ELSE IF n >= 2 * d THEN Normalise2(n, 2 * d, e + 1)
    ELSE <<n, d, e>>

\* k more bits of the quotient by long division: <<quotient, remainder>>
RECURSIVE DivBits(_, _, _, _)
DivBits(rem, d, q, k) ==
    IF k = 0 THEN <<q, rem>>
    ELSE IF 2 * rem >= d THEN DivBits(2 * rem - d, d, 2 * q + 1, k - 1)
    ELSE DivBits(2 * rem, d, 2 * q, k - 1)

\* <<n, d, t>> with n/d * 4^t unchanged and d <= n < 4d
RECURSIVE Normalise4(_, _, _)
Normalise4(n, d, t) ==
    IF n < d THEN Normalise4(4 * n, d, t - 1)
    ELSE IF n >= 4 * d THEN Normalise4(n, 4 * d, t + 1)
    ELSE <<n, d, t>>

\* k more bits of the square root of n/d, digit by digit: root is the root
\* so far, rs the remainder of the squaring, dr the remainder of the
\* division that produces the bits of n/d two at a time.
RECURSIVE SqrtBits(_, _, _, _, _)
SqrtBits(root, rs, dr, d, k) ==
    IF k = 0 THEN <<root, rs, dr>>
    ELSE LET two == (4 * dr) \div d
             dr2 == (4 * dr) % d
             r2  == 4 * rs + two
             t   == 4 * root + 1
         IN  IF r2 >= t THEN SqrtBits(2 * root + 1, r2 - t, dr2, d, k - 1)
             ELSE SqrtBits(2 * root, r2, dr2, d, k - 1)

\* the float32 nearest to the exact value v
Float32(v) ==
    IF v[1] = 0 THEN <<0, 0>>
    ELSE IF v[3] = 1 THEN
        LET nd == Normalise2(Abs(v[1]), v[2], 0)
            qr == DivBits(nd[1] - nd[2], nd[2], 1, 24)
        IN  RoundNearestEven(IF v[1] < 0 THEN -1 ELSE 1, qr[1], qr[2] # 0, nd[3])
    ELSE
        LET nd == Normalise4(v[1], v[2], 0)
            a  == nd[1] \div nd[2]
            sr == SqrtBits(1, a - 1, nd[1] % nd[2], nd[2], 24)
        IN  RoundNearestEven(1, sr[1], sr[2] # 0 \/ sr[3] # 0, nd[3])

\* ------------------------------------------------------------------------
\* Crops and the crop source (train_hog_svm.get_crops_with_labels)

\* A grayscale image: pixel (r, c), 0-based, is base + step * ((rm*r + cm*c) % mod);
\* lv lists the gray levels that can occur in it.
Image(height, width, base, step, rm, cm, mod) ==
    [height |-> height, width |-> width,
     lv  |-> [m \in 1 .. mod |-> base + step * (m - 1)],
     pix |-> [p \in (0 .. height - 1) \X (0 .. width - 1) |->
                 base + step * ((rm * p[1] + cm * p[2]) % mod)]]

\* The crops the model draws from; examples name a crop by its index here.
\* 1-2 uniform, 3 vertical stripes, 4 diagonal bands of three levels,
\* 5 horizontal bands; 6-8 are not of the configured crop size.
CropPool ==
    << Image(CROP_HEIGHT, CROP_WIDTH, 0, 0, 0, 0, 1),
       Image(CROP_HEIGHT, CROP_WIDTH, 255, 0, 0, 0, 1),
       Image(CROP_HEIGHT, CROP_WIDTH, 0, 1, 0, 1, 2),
       Image(CROP_HEIGHT, CROP_WIDTH, 1, 1, 1, 2, 3),
       Image(CROP_HEIGHT, CROP_WIDTH, 2, 3, 1, 0, 4),
       Image(16, 16, 9, 0, 0, 0, 1),
       Image(8, 12, 0, 2, 1, 1, 2),
       Image(4, 4, 5, 0, 0, 0, 1) >>

\* ------------------------------------------------------------------------
\* skimage.feature.greycomatrix / greycoprops as called in lines 82-87

\* distances of which the last exceeds CROP_WIDTH
distancesBeyondCrop == <<1, 3, 5, 33>>

distances == <<1, 3, 5, 7>>

\* angles[a] * pi/3 is the angle: 0, pi/3, 2*pi/3, pi
angles == <<0, 1, 2, 3>>

\* round(sin(angle) * distance): sin is 0, 0.866.., 0.866.., 1.2e-16
OffsetRow(distance, angle) ==
    IF angle \in {1, 2} THEN (866 * distance + 500) \div 1000 ELSE 0

\* round(cos(angle) * distance): cos is 1, 0.5000000000000001,
\* -0.4999999999999998, -1 in float64, so the halves round up at pi/3 and
\* towards zero at 2*pi/3
OffsetCol(distance, angle) ==
    CASE angle = 0 -> distance
      [] angle = 1 -> (distance + 1) \div 2
      [] angle = 2 -> -(distance \div 2)
      [] angle = 3 -> -distance

\* The co-occurrence matrix of one (distance, angle).  With n gray levels
\* lv[1..n] in the image, entry (lv[a], lv[b]) is num[(a-1)*n + b] / den,
\* and every entry of another gray level is 0.  With normed the entries
\* are divided by their sum (by 1 when the sum is 0); num and den are
\* divided by their common divisor.
CoMatrix(image, distance, angle, symmetric, normed) ==
    LET dr == OffsetRow(distance, angle)
        dc == OffsetCol(distance, angle)
        n  == Len(image.lv)
        Valid == {p \in DOMAIN image.pix :
                     /\ 0 <= p[1] + dr /\ p[1] + dr < image.height
                     /\ 0 <= p[2] + dc /\ p[2] + dc < image.width}
        count(gi, gj) ==
            Cardinality({p \in Valid :
                            /\ image.pix[p] = gi
                            /\ image.pix[<<p[1] + dr, p[2] + dc>>] = gj})
        raw == MkSeq(n * n,
                   [k \in 1 .. n * n |->
                       LET gi == image.lv[((k - 1) \div n) + 1]
                           gj == image.lv[((k - 1) % n) + 1]
                       IN  count(gi, gj) + (IF symmetric THEN count(gj, gi) ELSE 0)])
        sum == SumTo(n * n, raw)
        den == IF normed /\ sum # 0 THEN sum ELSE 1
        g   == GCD(GCDTo(n * n, raw), den)
    IN  [lv  |-> image.lv,
         num |-> MkSeq(n * n, [k \in 1 .. n * n |-> raw[k] \div g]),
         den |-> den \div g]

\* greycomatrix(crop, distances, angles, 256, symmetric=True, normed=True):
\* glcm[d][a] is the matrix of (ds[d], as[a])
greycomatrix(image, ds, as, levels, symmetric, normed) ==
    MkSeq(Len(ds),
          [d \in 1 .. Len(ds) |->
              MkSeq(Len(as),
                    [a \in 1 .. Len(as) |->
                        CoMatrix(image, ds[d], as[a], symmetric, normed)])])

\* the gray levels i and j of entry k of a matrix
LevelI(P, k) == P.lv[((k - 1) \div Len(P.lv)) + 1]

LevelJ(P, k) == P.lv[((k - 1) % Len(P.lv)) + 1]

\* sum of P[i,j] * |i - j|
Dissimilarity(P) ==
    Rat(SumTo(Len(P.num),
              [k \in DOMAIN P.num |-> P.num[k] * Abs(LevelI(P, k) - LevelJ(P, k))]),
        P.den)

\* sqrt of the sum of P[i,j]^2
Energy(P) ==
    SqrtRat(SumTo(Len(P.num), [k \in DOMAIN P.num |-> P.num[k] * P.num[k]]),
            P.den * P.den)

\* sum of P[i,j] (i - mean_i)(j - mean_j) / (std_i * std_j), and 1 where a
\* standard deviation is 0.  The matrix is symmetric, so both marginals
\* have the same mean and the same variance and std_i * std_j is that
\* variance; multiplied out over the common denominator den^2.
Correlation(P) ==
    LET n   == Len(P.num)
        s1  == SumTo(n, [k \in DOMAIN P.num |-> P.num[k] * LevelI(P, k)])
        s2  == SumTo(n, [k \in DOMAIN P.num |-> P.num[k] * LevelI(P, k) * LevelI(P, k)])
        s12 == SumTo(n, [k \in DOMAIN P.num |-> P.num[k] * LevelI(P, k) * LevelJ(P, k)])
        var == P.den * s2 - s1 * s1
        cov == P.den * s12 - s1 * s1
    IN  IF var = 0 THEN One ELSE Rat(cov, var)

\* greycoprops(glcm, prop): the property of every matrix, as a 2-D array
greycoprops(glcm, prop) ==
    [d \in DOMAIN glcm |->
        [a \in DOMAIN glcm[d] |->
            CASE prop = "dissimilarity" -> Dissimilarity(glcm[d][a])
              [] prop = "energy"        -> Energy(glcm[d][a])
              [] prop = "correlation"   -> Correlation(glcm[d][a])]]

\* ------------------------------------------------------------------------
\* The descriptor of one crop (lines 82-93)

\* nb_matrices counting the distances only
nb_matricesDistancesOnly == Len(distances)

nb_matrices == Len(distances) * Len(angles)

\* flatten(order='F'): column-major
FlattenColumnMajor(M, rows, cols) ==
    [k \in 1 .. rows * cols |-> M[((k - 1) % rows) + 1][((k - 1) \div rows) + 1]]

\* ndarray.flatten() of a rows x cols array: row-major (C order)
Flatten(M, rows, cols) ==
    [k \in 1 .. rows * cols |-> M[((k - 1) \div cols) + 1][((k - 1) % cols) + 1]]

\* arr[lo:hi] = values, 0-based and half-open as in Python
SliceAssign(arr, lo, hi, values) ==
    [k \in DOMAIN arr |-> IF lo < k /\ k <= hi THEN values[k - lo] ELSE arr[k]]

\* glcm of line 84
glcm(image) ==
    greycomatrix(image, distances, angles, LEVELS, TRUE, TRUE)

\* glcm of every crop of the pool, computed once
GlcmTable ==
    MkSeq(Len(CropPool), [c \in DOMAIN CropPool |-> glcm(CropPool[c])])

\* the slices of all_values that lines 91-93 assign, as <<lo, hi>> of [lo:hi]
Slices ==
    << <<0, nb_matrices>>,
       <<nb_matrices, nb_matrices * 2>>,
       <<nb_matrices * 2, nb_matrices * 3>> >>

\* all_values built from the distances that fit into the crop only
DescriptorFittingDistances(crop) ==
    LET fit  == SelectSeq(distances, LAMBDA d : d < CropPool[crop].height)
        cols == Len(angles)
        n    == Len(fit) * cols
        prop(name, k) ==
            greycoprops(GlcmTable[crop], name)[((k - 1) \div cols) + 1][((k - 1) % cols) + 1]
    IN  MkSeq(3 * n,
              [k \in 1 .. 3 * n |->
                  IF k <= n THEN prop("dissimilarity", k)
                  ELSE IF k <= 2 * n THEN prop("energy", k - n)
                  ELSE prop("correlation", k - 2 * n)])

\* all_values of lines 85-93 for the crop with index crop in the pool
Descriptor(crop) ==
    LET dissimilarities == greycoprops(GlcmTable[crop], "dissimilarity")
        energies        == greycoprops(GlcmTable[crop], "energy")
        correlations    == greycoprops(GlcmTable[crop], "correlation")
        rows            == Len(distances)
        cols            == Len(angles)
        zeros           == [k \in 1 .. 3 * nb_matrices |-> Zero]
        a1 == SliceAssign(zeros, Slices[1][1], Slices[1][2],
                          Flatten(dissimilarities, rows, cols))
        a2 == SliceAssign(a1, Slices[2][1], Slices[2][2],
                          Flatten(energies, rows, cols))
        a3 == SliceAssign(a2, Slices[3][1], Slices[3][2],
                          Flatten(correlations, rows, cols))
    IN  MkSeq(3 * nb_matrices, a3)

\* all_values of every crop of the pool, computed once
DescriptorTable ==
    MkSeq(Len(CropPool), [c \in DOMAIN CropPool |-> Descriptor(c)])

all_values(crop) == DescriptorTable[crop]

\* a >= b for fractions <<n, d>> with d > 0
Geq(a, b) == a[1] * b[2] >= b[1] * a[2]

\* the label with > in place of >=
LabelStrict(face_factor) ==
    IF ~Geq(CAT_FRACTION_THRESHOLD, face_factor) THEN 1 ELSE 0

\* lines 95 and 98: 1 if face_factor >= CAT_FRACTION_THRESHOLD else 0
Label(face_factor) ==
    LET is_cat == Geq(face_factor, CAT_FRACTION_THRESHOLD)
    IN  IF is_cat THEN 1 ELSE 0

\* np.array(rows, dtype=np.float32) of a list of equally long rows
Float32Matrix(rows) ==
    [r \in DOMAIN rows |-> [k \in DOMAIN rows[r] |-> Float32(rows[r][k])]]

\* np.array(labels, dtype=np.float32)
Float32Vector(labels) ==
    [r \in DOMAIN labels |-> Float32(Rat(labels[r], 1))]

\* s[lo:hi] for 0 <= lo, hi: Python clips both ends to len(s)
Slice(s, lo, hi) == SubSeq(s, Min(lo, Len(s)) + 1, Min(hi, Len(s)))

\* ------------------------------------------------------------------------
\* The crop source: what get_crops_with_labels yields

\* Longest sequence of pairs the exhaustive sources yield
MaxLen == 2

\* How far the long sources' lengths go below and above NB_VALIDATION
Margin == 1

\* Number of long sources per length
NbPatterns == 1

Pair(crop, face_factor) == [crop |-> crop, face_factor |-> face_factor]

\* indices of the crops of the configured size (crop_height, crop_width
\* of lines 73-76), in pool order
ConfiguredSeq ==
    SelectSeq([c \in DOMAIN CropPool |-> c],
              LAMBDA c : /\ CropPool[c].height = CROP_HEIGHT
                         /\ CropPool[c].width = CROP_WIDTH)

ConfiguredCrops == {ConfiguredSeq[k] : k \in DOMAIN ConfiguredSeq}

\* face fractions around the threshold
FracSeq == << <<49, 100>>, <<1, 2>>, <<51, 100>> >>

FracPool == {FracSeq[k] : k \in DOMAIN FracSeq}

SeqsUpTo(S, n) == UNION {[1 .. k -> S] : k \in 0 .. n}

\* the end-to-end scenario's face fractions
ScenarioFractions ==
    << <<9, 10>>, <<1, 10>>, <<6, 10>>, <<4, 10>>, <<55, 100>>,
       <<2, 10>>, <<5, 10>>, <<49, 100>>, <<51, 100>>, <<0, 1>> >>

\* the k-th of the configured crops, cyclically
CycleCrop(k) == ConfiguredSeq[(k % Len(ConfiguredSeq)) + 1]

Scenario ==
    [k \in 1 .. Len(ScenarioFractions) |-> Pair(CycleCrop(k), ScenarioFractions[k])]

\* a long source: n pairs that cycle through crops and fractions from o on
Pattern(n, o) ==
    [k \in 1 .. n |-> Pair(CycleCrop(k + o), FracSeq[((k + 2 * o) % Len(FracSeq)) + 1])]

\* every sequence of at most MaxLen pairs of configured crops, and the scenario
Sources ==
    {e \in SeqsUpTo({Pair(c, f) : c \in ConfiguredCrops, f \in FracPool}, MaxLen)
        \cup {Scenario} : Len(e) <= NB_CROPS}

\* sources whose crops are of any size
SourcesAnySize ==
    SeqsUpTo({Pair(c, f) : c \in DOMAIN CropPool, f \in {<<49, 100>>, <<1, 2>>}},
             MaxLen)

\* sources of about NB_VALIDATION pairs
LongSources ==
    {Pattern(n, o) : n \in {0} \cup (NB_VALIDATION - Margin .. NB_VALIDATION + Margin),
                     o \in 0 .. NbPatterns - 1}

\* ------------------------------------------------------------------------
\* State

VARIABLES
    examples,   \* the pairs the crop source yields (line 73)
    i,          \* number of pairs the loop of line 78 has consumed
    X,          \* load_xy's X: the list of rows, after line 104 the float32 matrix
    y,          \* load_xy's y: the list of labels, after line 105 the float32 vector
    pc,         \* "loop", "aborted" (assertion of line 101), "loaded" (line 45),
                \* "split" (line 52), "training" (line 58)
    X_val, X_train, y_val, y_train,   \* main's split (lines 50-51)
    rng,        \* draws taken from `random` since random.seed(42) (line 20)
    run,        \* which call of load_xy this is
    first       \* what the first call returned, once a second one was made

vars == <<examples, i, X, y, pc, X_val, X_train, y_val, y_train, rng, run, first>>

Start(srcs) ==
    /\ examples \in srcs
    /\ i = 0
    /\ X = <<>>
    /\ y = <<>>
    /\ pc = "loop"
    /\ X_val = <<>> /\ X_train = <<>> /\ y_val = <<>> /\ y_train = <<>>
    /\ rng = 0
    /\ run = 1
    /\ first = <<>>

Init == Start(Sources)

InitAnySize == Start(SourcesAnySize)

InitLong == Start(LongSources)

\* The loop body inserting at the front of the lists
LoopBodyPrepend ==
    /\ pc = "loop"
    /\ i < Len(examples)
    /\ X' = <<all_values(examples[i + 1].crop)>> \o X
    /\ y' = <<Label(examples[i + 1].face_factor)>> \o y
    /\ i' = i + 1
    /\ UNCHANGED <<examples, pc, X_val, X_train, y_val, y_train, rng, run, first>>

\* The loop body with the down-sampling of line 96 switched on: a crop that
\* is no cat is kept when the next draw is below 0.25; the draws stand in
\* for random.random()
LoopBodySampled ==
    /\ pc = "loop"
    /\ i < Len(examples)
    /\ LET is_cat == Label(examples[i + 1].face_factor) = 1
           draw   == (37 * rng + 11) % 100
       IN  /\ rng' = IF is_cat THEN rng ELSE rng + 1
           /\ IF is_cat \/ draw < 25
              THEN /\ X' = Append(X, all_values(examples[i + 1].crop))
                   /\ y' = Append(y, Label(examples[i + 1].face_factor))
              ELSE UNCHANGED <<X, y>>
    /\ i' = i + 1
    /\ UNCHANGED <<examples, pc, X_val, X_train, y_val, y_train, run, first>>

\* One iteration of the loop (lines 78-98)
LoopBody ==
    /\ pc = "loop"
    /\ i < Len(examples)
    /\ LET crop        == examples[i + 1].crop
           face_factor == examples[i + 1].face_factor
       IN  /\ X' = Append(X, all_values(crop))
           /\ y' = Append(y, Label(face_factor))
    /\ i' = i + 1
    /\ UNCHANGED <<examples, pc, X_val, X_train, y_val, y_train, rng, run, first>>

\* the assertion accepting an empty list too
UniformLengthOrEmpty(rows) == Cardinality({Len(rows[r]) : r \in DOMAIN rows}) <= 1

\* assert len(set([len(row) for row in X])) == 1 (line 101)
UniformLength(rows) == Cardinality({Len(rows[r]) : r \in DOMAIN rows}) = 1

\* The loop is over, the assertion holds: lines 101-107
Return ==
    /\ pc = "loop"
    /\ i = Len(examples)
    /\ UniformLength(X)
    /\ X' = Float32Matrix(X)
    /\ y' = Float32Vector(y)
    /\ pc' = "loaded"
    /\ UNCHANGED <<examples, i, X_val, X_train, y_val, y_train, rng, run, first>>

\* The loop is over, the assertion fails: AssertionError ends the run
AssertionFails ==
    /\ pc = "loop"
    /\ i = Len(examples)
    /\ ~UniformLength(X)
    /\ pc' = "aborted"
    /\ UNCHANGED <<examples, i, X, y, X_val, X_train, y_val, y_train, rng, run, first>>

\* the split with the training rows starting one row early
SplitOffByOne ==
    /\ pc = "loaded"
    /\ X_val' = Slice(X, 0, NB_VALIDATION)
    /\ X_train' = Slice(X, NB_VALIDATION - 1, Len(X))
    /\ y_val' = Slice(y, 0, NB_VALIDATION)
    /\ y_train' = Slice(y, NB_VALIDATION - 1, Len(y))
    /\ pc' = "split"
    /\ UNCHANGED <<examples, i, X, y, rng, run, first>>

\* main, lines 50-54
Split ==
    /\ pc = "loaded"
    /\ X_val' = Slice(X, 0, NB_VALIDATION)
    /\ X_train' = Slice(X, NB_VALIDATION, Len(X))
    /\ y_val' = Slice(y, 0, NB_VALIDATION)
    /\ y_train' = Slice(y, NB_VALIDATION, Len(y))
    /\ pc' = "split"
    /\ UNCHANGED <<examples, i, X, y, rng, run, first>>

\* main, lines 56-58: svc.fit(X_train, y_train)
Fit ==
    /\ pc = "split"
    /\ pc' = "training"
    /\ UNCHANGED <<examples, i, X, y, X_val, X_train, y_val, y_train, rng, run, first>>

\* load_xy called a second time in the same process on the same source
CallAgain ==
    /\ pc = "loaded"
    /\ run = 1
    /\ first' = <<X, y>>
    /\ run' = 2
    /\ i' = 0
    /\ X' = <<>>
    /\ y' = <<>>
    /\ pc' = "loop"
    /\ UNCHANGED <<examples, X_val, X_train, y_val, y_train, rng>>

Next == LoopBody \/ Return \/ AssertionFails \/ Split \/ Fit

NextTwice == LoopBody \/ Return \/ AssertionFails \/ CallAgain

Spec == Init /\ [][Next]_vars

SpecAnySize == InitAnySize /\ [][Next]_vars

SpecLong == InitLong /\ [][Next]_vars

SpecTwice == Init /\ [][NextTwice]_vars

\* ------------------------------------------------------------------------
\* Properties

\* X and y still are load_xy's lists of exact values (not yet float32 arrays)
InLoad == pc \in {"loop", "aborted"}

\* how an exact value / a label reads in X / y at the current position
Stored(v) == IF InLoad THEN v ELSE Float32(v)

StoredLabel(b) == IF InLoad THEN b ELSE IF b = 1 THEN <<1, 0>> ELSE <<0, 0>>

\* the float32 of every entry of all_values of every crop, computed once
StoredTable ==
    MkSeq(Len(CropPool),
          [c \in DOMAIN CropPool |->
              MkSeq(Len(all_values(c)),
                    [k \in DOMAIN all_values(c) |-> Float32(all_values(c)[k])])])

\* how all_values of a crop reads as a row of X at the current position
StoredRow(crop) == IF InLoad THEN all_values(crop) ELSE StoredTable[crop]

\* the three properties of the matrix of every crop, distance and angle,
\* exact and as float32, computed once
PropertyTable ==
    MkSeq(Len(CropPool),
          [c \in DOMAIN CropPool |->
              MkSeq(Len(distances),
                    [d \in DOMAIN distances |->
                        MkSeq(Len(angles),
                              [a \in DOMAIN angles |->
                                  LET P == GlcmTable[c][d][a]
                                      v == <<Dissimilarity(P), Energy(P), Correlation(P)>>
                                  IN  [exact   |-> v,
                                       float32 |-> <<Float32(v[1]), Float32(v[2]),
                                                     Float32(v[3])>>]])])])

\* how the properties of the matrix (d, a) of a crop read in X
StoredProperties(crop, d, a) ==
    IF InLoad THEN PropertyTable[crop][d][a].exact
    ELSE PropertyTable[crop][d][a].float32

FractionsOf(e) == [k \in DOMAIN e |-> e[k].face_factor]

\* crops of one gray level
UniformCrops ==
    {c \in DOMAIN CropPool :
        \A p \in DOMAIN CropPool[c].pix : CropPool[c].pix[p] = CropPool[c].pix[<<0, 0>>]}

C2_RowLength ==
    /\ \A r \in DOMAIN X : Len(X[r]) = 3 * Len(distances) * Len(angles) /\ Len(X[r]) = 48
    /\ Len(X) = Len(y)
    /\ pc = "loop" => Len(X) = i
    /\ pc \notin {"loop", "aborted"} => Len(X) = Len(examples)

C2_Witness ==
    /\ pc = "loaded"
    /\ Len(X) = 10
    /\ Len(y) = 10
    /\ \A r \in DOMAIN X : Len(X[r]) = 48
    /\ \E r \in DOMAIN X : X[r] # X[1]

\* C3: with n = 16, entry d*4 + a (0-based) of a row is the dissimilarity of
\* the matrix of (distances[d], angles[a]), entry n + d*4 + a its energy and
\* entry 2n + d*4 + a its correlation, and the three assigned slices cover
\* every index of the row exactly once.
C3_Layout ==
    /\ \A r \in DOMAIN X : \A d \in 1 .. 4 : \A a \in 1 .. 4 :
          LET v == StoredProperties(examples[r].crop, d, a)
              k == (d - 1) * 4 + a
          IN  /\ X[r][k] = v[1]
              /\ X[r][16 + k] = v[2]
              /\ X[r][32 + k] = v[3]
    /\ \A k \in 1 .. 48 :
          Cardinality({n \in DOMAIN Slices : Slices[n][1] < k /\ k <= Slices[n][2]}) = 1

C3_Witness ==
    /\ pc = "loop"
    /\ Len(X) = 1
    /\ examples[1].crop = 4
    /\ X[1][7] = <<1199, 899, 1>>
    /\ X[1][10] = <<1083, 812, 1>>
    /\ X[1][16 + 6] = <<1, 6, 2>>
    /\ X[1][32 + 6] = <<-1, 2, 1>>

\* C4: after k pairs X and y hold exactly k entries; row r is the
\* descriptor of the r-th yielded crop and label r the label of the r-th
\* yielded face fraction, nothing dropped, duplicated or reordered; the
\* returned arrays keep this order.
C4_OrderPreserving ==
    /\ pc = "loop" => Len(X) = i /\ Len(y) = i
    /\ pc \notin {"loop", "aborted"} => Len(X) = Len(examples) /\ Len(y) = Len(examples)
    /\ \A r \in DOMAIN X : X[r] = StoredRow(examples[r].crop)
    /\ \A r \in DOMAIN y : y[r] = StoredLabel(Label(examples[r].face_factor))

C4_Witness ==
    /\ pc = "loaded"
    /\ Len(X) = 2
    /\ X[1] # X[2]
    /\ y[1] # y[2]
    /\ X[2] = StoredRow(examples[2].crop)

\* C5: the validation set is X[0:NB_VALIDATION] and y[0:NB_VALIDATION] (all
\* rows when there are fewer), the training set all remaining rows in
\* their order; the sizes add up, no row index is in both parts, and rows
\* and labels are cut at the same index.
C5_SplitCompleteDisjoint ==
    pc \in {"split", "training"} =>
        LET v == IF Len(X) < NB_VALIDATION THEN Len(X) ELSE NB_VALIDATION
        IN  /\ Len(X_val) = v /\ Len(y_val) = v
            /\ Len(X_train) = Len(X) - v /\ Len(y_train) = Len(y) - v
            /\ Len(X_train) + Len(X_val) = Len(X)
            /\ Len(y_train) + Len(y_val) = Len(y)
            /\ \A k \in 1 .. v : X_val[k] = X[k] /\ y_val[k] = y[k]
            /\ \A k \in 1 .. Len(X) - v : X_train[k] = X[v + k] /\ y_train[k] = y[v + k]

C5_Witness ==
    /\ pc = "split"
    /\ Len(X) = NB_VALIDATION + 1
    /\ Len(X_val) = NB_VALIDATION
    /\ Len(X_train) = 1
    /\ X_train[1] = X[NB_VALIDATION + 1]
    /\ X_train[1] # X[NB_VALIDATION]

\* C6: the split fails when NB_VALIDATION exceeds the number of rows, and no
\* empty training set reaches the classifier.
C6_SplitRejectsTooFewRows ==
    /\ pc \in {"split", "training"} => NB_VALIDATION <= Len(X)
    /\ pc = "training" => Len(X_train) > 0

\* whether the crops of the source are of more than one size
InconsistentSizes ==
    \E a \in DOMAIN examples, b \in DOMAIN examples :
        \/ CropPool[examples[a].crop].height # CropPool[examples[b].crop].height
        \/ CropPool[examples[a].crop].width # CropPool[examples[b].crop].width

\* C7 as stated: a source of crops of inconsistent size ends in the
\* assertion and load_xy returns nothing.
C7_InconsistentSizesAbort ==
    (InconsistentSizes /\ pc # "loop") => pc = "aborted"

\* C7 as amended: every row has 48 entries whatever the size of its crop, so
\* the assertion holds for every non-empty source, also one of crops of
\* different sizes, and load_xy returns one untruncated, unpadded row per
\* yielded crop.
C7_SizesDoNotChangeRowLength ==
    /\ \A r \in DOMAIN X : Len(X[r]) = 48
    /\ InconsistentSizes => pc # "aborted"
    /\ (InconsistentSizes /\ pc = "loop" /\ i = Len(examples)) => UniformLength(X)
    /\ (InconsistentSizes /\ pc \notin {"loop", "aborted"}) =>
          /\ Len(X) = Len(examples)
          /\ \A r \in DOMAIN X : X[r] = StoredRow(examples[r].crop)

C7_Witness ==
    /\ pc = "loaded"
    /\ InconsistentSizes
    /\ Len(X) = 2
    /\ CropPool[examples[1].crop].height = 4
    /\ CropPool[examples[2].crop].height = CROP_HEIGHT

C9_UniformCrop ==
    \A r \in DOMAIN X :
        examples[r].crop \in UniformCrops =>
            \A d \in 1 .. 4 : \A a \in 1 .. 4 :
                LET P == GlcmTable[examples[r].crop][d][a]
                    k == (d - 1) * 4 + a
                IN  /\ P.den = 1
                    /\ Cardinality({e \in DOMAIN P.num : P.num[e] # 0}) = 1
                    /\ \A e \in DOMAIN P.num :
                          P.num[e] # 0 => P.num[e] = 1 /\ LevelI(P, e) = LevelJ(P, e)
                    /\ X[r][k] = Stored(<<0, 1, 1>>)
                    /\ X[r][16 + k] = Stored(<<1, 1, 1>>)

C9_Witness ==
    /\ pc = "loop"
    /\ Len(X) = 2
    /\ examples[1].crop \in UniformCrops
    /\ examples[2].crop \in UniformCrops
    /\ examples[1].crop # examples[2].crop
    /\ X[1][1] = <<0, 1, 1>>
    /\ X[2][17] = <<1, 1, 1>>

\* C10: a source that yields nothing ends in the assertion of line 101,
\* before any split or classifier call; every non-empty source passes the
\* assertion and load_xy returns.
C10_EmptySourceAborts ==
    /\ examples = <<>> => pc \in {"loop", "aborted"}
    /\ (examples = <<>> /\ pc = "loop") => ~UniformLength(X)
    /\ examples # <<>> => pc # "aborted"
    /\ (examples # <<>> /\ pc = "loop" /\ i = Len(examples)) => UniformLength(X)

C10_Witness ==
    /\ examples = <<>>
    /\ pc = "aborted"
    /\ X = <<>>
    /\ X_train = <<>>

====
